---- MODULE Spec2Model ----
(***************************************************************************)
(* Incremental ingest of an Apple Messages chat.db snapshot into the       *)
(* ChatPulse PostgreSQL archive (services/web/src/server/services).        *)
(*                                                                         *)
(* Numbers.  The raw timestamps of chat.db are 18-digit integers and the   *)
(* conversions divide and multiply by 10^9 and 10^3, so a JavaScript       *)
(* number is modelled as an exact signed decimal in base 1000:             *)
(*   [neg |-> sign, int |-> integer groups, frac |-> fractional groups]    *)
(* with the most significant group first.  727_012_800_000_000_000 is      *)
(* Num(<<727, 12, 800, 0, 0, 0>>).  Arithmetic is exact; the raw dates     *)
(* of RawDates are values on which IEEE-754 double evaluation of the       *)
(* conversions gives the same results as exact arithmetic.                 *)
(***************************************************************************)
EXTENDS Integers, Sequences, FiniteSets, TLC

\* ------------------------------------------------------------------------
\* Exact decimal arithmetic (the JavaScript number operations the
\* conversions use: comparison, abs, +, -, * 1000, / 1000, truncation).
\* ------------------------------------------------------------------------

RECURSIVE StripLead(_)
StripLead(s) ==
  IF s = <<>> THEN s
  ELSE IF Head(s) = 0 THEN StripLead(Tail(s)) ELSE s

RECURSIVE StripTrail(_)
StripTrail(s) ==
  IF s = <<>> THEN s
  ELSE IF s[Len(s)] = 0 THEN StripTrail(SubSeq(s, 1, Len(s) - 1)) ELSE s

\* canonical form: no leading integer zeros, no trailing fractional zeros,
\* zero is not negative
Norm(n, i, f) ==
  LET i2 == StripLead(i)
      f2 == StripTrail(f)
  IN  [neg |-> n /\ (i2 # <<>> \/ f2 # <<>>), int |-> i2, frac |-> f2]

\* an integer literal written in groups of three decimal digits
Num(groups) == Norm(FALSE, groups, <<>>)

Neg(x) == Norm(~x.neg, x.int, x.frac)

Abs(x) == [x EXCEPT !.neg = FALSE]

Zeros(n) == [k \in 1..n |-> 0]

Max2(a, b) == IF a >= b THEN a ELSE b

\* the digits of x aligned to li integer groups and lf fractional groups
Digits(x, li, lf) ==
  Zeros(li - Len(x.int)) \o x.int \o x.frac \o Zeros(lf - Len(x.frac))

\* lexicographic order of two digit strings of the same length
LexLess(a, b) ==
  \E k \in 1..Len(a) :
    /\ a[k] < b[k]
    /\ \A j \in 1..(k - 1) : a[j] = b[j]

MagLess(x, y) ==
  LET li == Max2(Len(x.int), Len(y.int))
      lf == Max2(Len(x.frac), Len(y.frac))
  IN  LexLess(Digits(x, li, lf), Digits(y, li, lf))

\* x < y
Less(x, y) ==
  IF x.neg /\ ~y.neg THEN TRUE
  ELSE IF ~x.neg /\ y.neg THEN FALSE
  ELSE IF x.neg THEN MagLess(y, x)
  ELSE MagLess(x, y)

Greater(x, y) == Less(y, x)

Leq(x, y) == ~Less(y, x)

\* |x| + |y|, with the sign given
MagAdd(n, x, y) ==
  LET li == Max2(Len(x.int), Len(y.int))
      lf == Max2(Len(x.frac), Len(y.frac))
      L  == li + lf
      a  == Digits(x, li, lf)
      b  == Digits(y, li, lf)
      c[k \in 0..L] ==
        IF k = 0 THEN 0 ELSE (a[L - k + 1] + b[L - k + 1] + c[k - 1]) \div 1000
      d  == [p \in 1..L |-> (a[p] + b[p] + c[L - p]) % 1000]
  IN  Norm(n, <<c[L]>> \o SubSeq(d, 1, li), SubSeq(d, li + 1, L))

\* |x| - |y| for |x| >= |y|, with the sign given
MagSub(n, x, y) ==
  LET li == Max2(Len(x.int), Len(y.int))
      lf == Max2(Len(x.frac), Len(y.frac))
      L  == li + lf
      a  == Digits(x, li, lf)
      b  == Digits(y, li, lf)
      c[k \in 0..L] ==
        IF k = 0 THEN 0
        ELSE IF a[L - k + 1] - b[L - k + 1] - c[k - 1] < 0 THEN 1 ELSE 0
      d  == [p \in 1..L |-> (a[p] - b[p] - c[L - p] + 1000) % 1000]
  IN  Norm(n, SubSeq(d, 1, li), SubSeq(d, li + 1, L))

\* x + y
Add(x, y) ==
  IF x.neg = y.neg THEN MagAdd(x.neg, x, y)
  ELSE IF MagLess(x, y) THEN MagSub(y.neg, y, x)
  ELSE MagSub(x.neg, x, y)

\* x - y
Sub(x, y) == Add(x, Neg(y))

\* x * 1000
Mul1000(x) ==
  IF x.frac = <<>> THEN Norm(x.neg, x.int \o <<0>>, <<>>)
  ELSE Norm(x.neg, x.int \o <<Head(x.frac)>>, Tail(x.frac))

\* x / 1000
Div1000(x) ==
  IF x.int = <<>> THEN Norm(x.neg, <<>>, <<0>> \o x.frac)
  ELSE Norm(x.neg, SubSeq(x.int, 1, Len(x.int) - 1),
            <<x.int[Len(x.int)]>> \o x.frac)

\* x * 1_000_000_000
MulE9(x) == Mul1000(Mul1000(Mul1000(x)))

\* x / 1_000_000_000
DivE9(x) == Div1000(Div1000(Div1000(x)))

\* truncation toward zero (the time value of new Date(x))
Trunc(x) == Norm(x.neg, x.int, <<>>)

\* ------------------------------------------------------------------------
\* dateConvert: Apple Core Data timestamps <-> JavaScript Date
\* ------------------------------------------------------------------------

APPLE_EPOCH_OFFSET == Num(<<978, 307, 200>>)

NANO_THRESHOLD == Num(<<1, 0, 0, 0, 0>>)

\* the threshold itself taken as nanoseconds
isNanosecondsInclusive(appleTimestamp) ==
  ~Less(Abs(appleTimestamp), NANO_THRESHOLD)

isNanoseconds(appleTimestamp) == Greater(Abs(appleTimestamp), NANO_THRESHOLD)

normaliseToSeconds(appleTimestamp) ==
  IF isNanoseconds(appleTimestamp) THEN DivE9(appleTimestamp)
  ELSE appleTimestamp

appleToUnix(appleTimestamp) ==
  Add(normaliseToSeconds(appleTimestamp), APPLE_EPOCH_OFFSET)

unixToApple(unixTimestamp) == MulE9(Sub(unixTimestamp, APPLE_EPOCH_OFFSET))

\* a Date is its time value: integer milliseconds since 1970-01-01
appleToDate(appleTimestamp) == Trunc(Mul1000(appleToUnix(appleTimestamp)))

dateToApple(date) == unixToApple(Div1000(date))

\* ------------------------------------------------------------------------
\* Bounds and the input universe
\* ------------------------------------------------------------------------

\* number of rows the source message table can hold; ROWIDs are 1..MaxMsgs
MaxMsgs == 2

\* raw chat.db dates an appended message can carry
N600     == Num(<<600, 0, 0, 0, 0, 0>>)      \* nanoseconds, 2020-01-06
N600half == Num(<<600, 0, 0, 0, 500, 0>>)    \* the same millisecond + 0.5 ms
N700     == Num(<<700, 0, 0, 0, 0, 0>>)      \* nanoseconds, 2023-03-08
S650     == Num(<<650, 0, 0>>)               \* legacy seconds, 2021-08-07

RawDates == {N600, N600half, N700, S650}

\* (handle_id, chat) of an appended message; handle_id 0 is a message with
\* no sender row, chat 0 a message that is in no chat
MsgKinds == {<<1, 1>>, <<1, 0>>, <<0, 0>>}

\* ------------------------------------------------------------------------
\* State
\* ------------------------------------------------------------------------

VARIABLES
  chatdb,     \* the chat.db snapshot (SQLite): its five tables
  db,         \* the committed PostgreSQL database: its six tables
  tx,         \* the tables as seen by the open transaction
  inTx,       \* a transaction is open on the client connection
  pc,         \* position of ingestFromChatDb
  watermark,  \* local: the result of getWatermark, <<>> for null
  batch,      \* local: the rows read from chat.db
  counts,     \* local: handlesUpserted, chatsUpserted, messagesIngested
  result,     \* outcome of the run: returned IngestResult or the throw
  preDb,      \* history: db when the run started
  prev,       \* history: the previous run
  cli,        \* the process of the CLI entry point (src/ingest.ts)
  conv,       \* a conversion of dateConvert applied to an input
  peer        \* a second process that runs ingestFromChatDb

vars == <<chatdb, db, tx, inTx, pc, watermark, batch, counts, result,
          preDb, prev, cli, conv, peer>>

EmptyTables ==
  [ handles           |-> {},
    chats             |-> {},
    messages          |-> <<>>,
    chat_handle_join  |-> {},
    chat_message_join |-> {},
    ingest_watermark  |-> {} ]

EmptyBatch ==
  [ messages         |-> <<>>,
    handles          |-> <<>>,
    chats            |-> <<>>,
    chatMessageJoins |-> <<>>,
    chatHandleJoins  |-> <<>> ]

ZeroCounts == [handlesUpserted |-> 0, chatsUpserted |-> 0, messagesIngested |-> 0]

NoResult ==
  [ status           |-> "none",
    at               |-> "idle",
    messagesIngested |-> 0,
    handlesUpserted  |-> 0,
    chatsUpserted    |-> 0,
    highWatermark    |-> <<>> ]

NoPrev ==
  [ status       |-> "none",
    afterUpserts |-> FALSE,
    chatdb       |-> {},
    watermark    |-> <<>>,
    batch        |-> EmptyBatch,
    result       |-> NoResult ]

\* no process of the CLI entry point: ingestFromChatDb is called directly
NoCli ==
  [ phase             |-> "none",
    shutdownRequested |-> FALSE,
    timer             |-> -1,
    exit              |-> <<>>,
    at                |-> "none" ]

\* no conversion under way
NoConv ==
  [ step    |-> "none",
    raw     |-> Num(<<>>),
    unix    |-> <<>>,
    reApple |-> <<>>,
    date    |-> <<>>,
    reDate  |-> <<>>,
    reUnix  |-> <<>>,
    instant |-> <<>>,
    apple   |-> <<>>,
    reInstant |-> <<>> ]

\* the second process is not in a run
NoPeer ==
  [ pc    |-> "idle",
    batch |-> EmptyBatch ]

\* the rows of a sequence, as a set
Range(s) == {s[k] : k \in 1..Len(s)}

\* the elements of a finite set in the strict total order LT
SortSet(S, LT(_, _)) ==
  CHOOSE s \in [1..Cardinality(S) -> S] :
    \A i, j \in 1..Cardinality(S) : i < j => LT(s[i], s[j])

\* the elements of a sequence without repetitions, first occurrences kept
RECURSIVE Distinct(_)
Distinct(s) ==
  IF s = <<>> THEN <<>>
  ELSE LET r == Distinct(SubSeq(s, 1, Len(s) - 1))
       IN  IF s[Len(s)] \in Range(r) THEN r ELSE Append(r, s[Len(s)])

\* ------------------------------------------------------------------------
\* chat.db: the source, written by Messages.app, read-only for the ingest
\* ------------------------------------------------------------------------

InitChatDb ==
  [ journal_mode      |-> "wal",
    message           |-> {},
    handle            |-> {[ROWID |-> 1, id |-> "+15550001",
                            service |-> "iMessage"]},
    chat              |-> {[ROWID |-> 1, guid |-> "chat1",
                            display_name |-> ""]},
    chat_handle_join  |-> {[chat_id |-> 1, handle_id |-> 1]},
    chat_message_join |-> {} ]

\* the journal mode in the header of the snapshot file
JournalModes == {"wal", "delete"}

\* Messages.app appends one message row (and its chat_message_join row).
\* The run issues all its chat.db queries synchronously, so an append
\* during a run is an append before or after it.
AppendSource ==
  /\ pc = "idle"
  /\ Cardinality(chatdb.message) < MaxMsgs
  /\ \E rowid \in 1..MaxMsgs, date \in RawDates, kind \in MsgKinds :
       /\ \A m \in chatdb.message : m.ROWID # rowid
       /\ chatdb' =
            [chatdb EXCEPT
               !.message = @ \cup {[ROWID |-> rowid, guid |-> rowid,
                                    text |-> "a",
                                    handle_id |-> kind[1], date |-> date]},
               !.chat_message_join =
                  IF kind[2] = 0 THEN @
                  ELSE @ \cup {[chat_id |-> kind[2], message_id |-> rowid]}]
  /\ UNCHANGED <<db, tx, inTx, pc, watermark, batch, counts, result,
                 preDb, prev>>
  /\ UNCHANGED <<cli, conv, peer>>

\* Messages.app changes a row that the archive holds (a change of a row
\* that is not archived yet reaches the archive as an append does): the
\* text of a message is edited
EditMessage ==
  /\ pc = "idle"
  /\ \E m \in chatdb.message :
       /\ m.text = "a"
       /\ \E k \in 1..Len(db.messages) : db.messages[k].original_rowid = m.ROWID
       /\ chatdb' = [chatdb EXCEPT
                       !.message = (@ \ {m}) \cup {[m EXCEPT !.text = "b"]}]
  /\ UNCHANGED <<db, tx, inTx, pc, watermark, batch, counts, result,
                 preDb, prev, cli, conv, peer>>

\* a contact moves to another service
EditHandle ==
  /\ pc = "idle"
  /\ \E h \in chatdb.handle :
       /\ h.service = "iMessage"
       /\ \E r \in db.handles : r.original_rowid = h.ROWID
       /\ chatdb' = [chatdb EXCEPT
                       !.handle = (@ \ {h}) \cup {[h EXCEPT !.service = "SMS"]}]
  /\ UNCHANGED <<db, tx, inTx, pc, watermark, batch, counts, result,
                 preDb, prev, cli, conv, peer>>

\* a thread is given a name
EditChat ==
  /\ pc = "idle"
  /\ \E c \in chatdb.chat :
       /\ c.display_name = ""
       /\ \E r \in db.chats : r.original_rowid = c.ROWID
       /\ chatdb' = [chatdb EXCEPT
                       !.chat = (@ \ {c}) \cup
                                {[c EXCEPT !.display_name = "Family"]}]
  /\ UNCHANGED <<db, tx, inTx, pc, watermark, batch, counts, result,
                 preDb, prev, cli, conv, peer>>

\* ------------------------------------------------------------------------
\* PostgreSQL: statements run in the open transaction, or autocommit
\* ------------------------------------------------------------------------

\* the tables a statement of the client connection sees
Cur == IF inTx THEN tx ELSE db

\* the effect of a statement that leaves the tables t
Write(t) ==
  IF inTx THEN tx' = t /\ UNCHANGED db
  ELSE db' = t /\ UNCHANGED tx

\* ------------------------------------------------------------------------
\* watermark.ts
\* ------------------------------------------------------------------------

\* SELECT last_message_date, last_rowid FROM ingest_watermark LIMIT 1
getWatermark(t) ==
  IF t.ingest_watermark = {} THEN <<>>
  ELSE LET row == CHOOSE r \in t.ingest_watermark : TRUE
       IN  <<[lastMessageDate |-> row.last_message_date,
              lastRowid       |-> row.last_rowid]>>

\* the watermark taken from the clock: a millisecond after the message
updateWatermarkFromClock(t, date, rowid) ==
  [t EXCEPT !.ingest_watermark =
     {r \in @ : r.id # 1} \cup
     {[id |-> 1, last_message_date |-> Add(date, Num(<<1>>)),
       last_rowid |-> rowid]}]

\* the upsert keeps the later of the stored and the new timestamp
updateWatermarkGreatest(t, date, rowid) ==
  IF \E r \in t.ingest_watermark : Less(date, r.last_message_date)
  THEN t
  ELSE [t EXCEPT !.ingest_watermark =
          {[id |-> 1, last_message_date |-> date, last_rowid |-> rowid]}]

\* a plain INSERT of a further row, the row there before is kept
updateWatermarkAppends(t, date, rowid) ==
  [t EXCEPT !.ingest_watermark =
     @ \cup {[id |-> 1 + Cardinality(@), last_message_date |-> date,
              last_rowid |-> rowid]}]

\* INSERT INTO ingest_watermark (id, ...) VALUES (1, $1, $2, NOW())
\* ON CONFLICT (id) DO UPDATE SET ...
updateWatermark(t, date, rowid) ==
  LET new == [id |-> 1, last_message_date |-> date, last_rowid |-> rowid]
  IN  [t EXCEPT !.ingest_watermark =
         {r \in @ : r.id # 1} \cup {new}]

\* ------------------------------------------------------------------------
\* ingest.ts: the read phase (chat.db queries)
\* ------------------------------------------------------------------------

\* ORDER BY date ASC; rows of equal date come in ROWID order, the order of
\* the table scan
MessageLT(a, b) ==
  \/ Less(a.date, b.date)
  \/ a.date = b.date /\ a.ROWID < b.ROWID

RowidLT(a, b) == a.ROWID < b.ROWID

JoinLT(a, b) ==
  LET other(j) == IF "handle_id" \in DOMAIN j THEN j.handle_id ELSE j.message_id
  IN  \/ a.chat_id < b.chat_id
      \/ a.chat_id = b.chat_id /\ other(a) < other(b)

\* the stored watermark ignored: every run reads from 0
appleWatermarkZero(wm) == Num(<<0>>)

\* watermark ? dateToApple(watermark.lastMessageDate) : 0
appleWatermarkOf(wm) ==
  IF wm = <<>> THEN Num(<<0>>) ELSE dateToApple(wm[1].lastMessageDate)

\* SELECT ... FROM message WHERE date > ? ORDER BY date ASC
SelectMessages(cdb, appleWatermark) ==
  SortSet({m \in cdb.message : Greater(m.date, appleWatermark)}, MessageLT)

\* the five queries of the read phase
ReadChatDb(cdb, appleWatermark) ==
  LET messages      == SelectMessages(cdb, appleWatermark)
      handleIds     == Distinct(SelectSeq([k \in 1..Len(messages) |->
                                             messages[k].handle_id],
                                          LAMBDA id : id > 0))
      handles       == SortSet({h \in cdb.handle : h.ROWID \in Range(handleIds)},
                               RowidLT)
      messageRowids == [k \in 1..Len(messages) |-> messages[k].ROWID]
      chatMessageJoins ==
        SortSet({j \in cdb.chat_message_join :
                   j.message_id \in Range(messageRowids)}, JoinLT)
      chatIds       == Distinct([k \in 1..Len(chatMessageJoins) |->
                                   chatMessageJoins[k].chat_id])
      chats         == SortSet({c \in cdb.chat : c.ROWID \in Range(chatIds)},
                               RowidLT)
      chatHandleJoins ==
        SortSet({j \in cdb.chat_handle_join : j.chat_id \in Range(chatIds)},
                JoinLT)
  IN  [ messages         |-> messages,
        handles          |-> handles,
        chats            |-> chats,
        chatMessageJoins |-> chatMessageJoins,
        chatHandleJoins  |-> chatHandleJoins ]

\* ------------------------------------------------------------------------
\* ingest.ts: the statements of the write phase.  Each gives the tables
\* after the statement and ok = FALSE when PostgreSQL rejects it.
\* ------------------------------------------------------------------------

\* INSERT INTO handles ... ON CONFLICT (original_rowid) DO UPDATE SET ...
\* (handles: original_rowid PRIMARY KEY, UNIQUE(identifier, service))
UpsertHandle(t, handle) ==
  LET new    == [original_rowid |-> handle.ROWID, identifier |-> handle.id,
                 service |-> handle.service]
      others == {r \in t.handles : r.original_rowid # handle.ROWID}
  IN  IF \E r \in others : /\ r.identifier = new.identifier
                            /\ r.service = new.service
      THEN [ok |-> FALSE, t |-> t]
      ELSE [ok |-> TRUE, t |-> [t EXCEPT !.handles = others \cup {new}]]

\* INSERT INTO chats ... ON CONFLICT (original_rowid) DO UPDATE SET ...
\* (chats: original_rowid PRIMARY KEY, guid UNIQUE)
UpsertChat(t, chat) ==
  LET new    == [original_rowid |-> chat.ROWID, guid |-> chat.guid,
                 display_name |-> chat.display_name]
      others == {r \in t.chats : r.original_rowid # chat.ROWID}
  IN  IF \E r \in others : r.guid = new.guid
      THEN [ok |-> FALSE, t |-> t]
      ELSE [ok |-> TRUE, t |-> [t EXCEPT !.chats = others \cup {new}]]

\* the insert with DO UPDATE in place of DO NOTHING
InsertMessageOverwrites(t, msg) ==
  LET new == [original_rowid |-> msg.ROWID, guid |-> msg.guid,
              text |-> msg.text,
              handle_id |-> msg.handle_id, date |-> appleToDate(msg.date)]
  IN  IF \A h \in t.handles : h.original_rowid # new.handle_id
      THEN [ok |-> FALSE, t |-> t]
      ELSE IF \E r \in Range(t.messages) : r.original_rowid = new.original_rowid
      THEN [ok |-> TRUE,
            t  |-> [t EXCEPT !.messages =
                      [k \in 1..Len(@) |->
                         IF @[k].original_rowid = new.original_rowid
                         THEN new ELSE @[k]]]]
      ELSE [ok |-> TRUE, t |-> [t EXCEPT !.messages = Append(@, new)]]

\* the insert without its conflict clause, on a table without the key
InsertMessageNoConflict(t, msg) ==
  LET new == [original_rowid |-> msg.ROWID, guid |-> msg.guid,
              text |-> msg.text,
              handle_id |-> msg.handle_id, date |-> appleToDate(msg.date)]
  IN  IF \A h \in t.handles : h.original_rowid # new.handle_id
      THEN [ok |-> FALSE, t |-> t]
      ELSE [ok |-> TRUE, t |-> [t EXCEPT !.messages = Append(@, new)]]

\* INSERT INTO messages ... ON CONFLICT (original_rowid) DO NOTHING
\* (messages: original_rowid PRIMARY KEY, guid UNIQUE,
\*  handle_id REFERENCES handles(original_rowid))
InsertMessage(t, msg) ==
  LET sentAt == appleToDate(msg.date)
      new    == [original_rowid |-> msg.ROWID, guid |-> msg.guid,
                 text |-> msg.text,
                 handle_id |-> msg.handle_id, date |-> sentAt]
  IN  IF \E r \in Range(t.messages) : r.original_rowid = new.original_rowid
      THEN [ok |-> TRUE, t |-> t]
      ELSE IF \/ \E r \in Range(t.messages) : r.guid = new.guid
              \/ \A h \in t.handles : h.original_rowid # new.handle_id
      THEN [ok |-> FALSE, t |-> t]
      ELSE [ok |-> TRUE, t |-> [t EXCEPT !.messages = Append(@, new)]]

\* INSERT INTO chat_handle_join ... ON CONFLICT (chat_id, handle_id) DO NOTHING
InsertChatHandleJoin(t, join) ==
  IF join \in t.chat_handle_join THEN [ok |-> TRUE, t |-> t]
  ELSE IF \/ \A c \in t.chats : c.original_rowid # join.chat_id
          \/ \A h \in t.handles : h.original_rowid # join.handle_id
  THEN [ok |-> FALSE, t |-> t]
  ELSE [ok |-> TRUE, t |-> [t EXCEPT !.chat_handle_join = @ \cup {join}]]

\* INSERT INTO chat_message_join ... ON CONFLICT (chat_id, message_id) DO NOTHING
InsertChatMessageJoin(t, join) ==
  IF join \in t.chat_message_join THEN [ok |-> TRUE, t |-> t]
  ELSE IF \/ \A c \in t.chats : c.original_rowid # join.chat_id
          \/ \A m \in Range(t.messages) : m.original_rowid # join.message_id
  THEN [ok |-> FALSE, t |-> t]
  ELSE [ok |-> TRUE, t |-> [t EXCEPT !.chat_message_join = @ \cup {join}]]

\* for (const handle of handles) { await client.query(...); handlesUpserted++ }
\* n counts the statements that returned; the loop ends at the first throw
RECURSIVE UpsertHandles(_, _, _)
UpsertHandles(t, handles, n) ==
  IF handles = <<>> THEN [ok |-> TRUE, t |-> t, n |-> n]
  ELSE LET r == UpsertHandle(t, Head(handles))
       IN  IF r.ok THEN UpsertHandles(r.t, Tail(handles), n + 1)
           ELSE [ok |-> FALSE, t |-> t, n |-> n]

RECURSIVE UpsertChats(_, _, _)
UpsertChats(t, chats, n) ==
  IF chats = <<>> THEN [ok |-> TRUE, t |-> t, n |-> n]
  ELSE LET r == UpsertChat(t, Head(chats))
       IN  IF r.ok THEN UpsertChats(r.t, Tail(chats), n + 1)
           ELSE [ok |-> FALSE, t |-> t, n |-> n]

\* the count taken from the rows added: a row skipped by DO NOTHING is not
\* counted
RECURSIVE InsertMessagesCountsAdded(_, _, _)
InsertMessagesCountsAdded(t, messages, n) ==
  IF messages = <<>> THEN [ok |-> TRUE, t |-> t, n |-> n]
  ELSE LET r == InsertMessage(t, Head(messages))
       IN  IF r.ok
           THEN InsertMessagesCountsAdded(
                  r.t, Tail(messages),
                  n + Len(r.t.messages) - Len(t.messages))
           ELSE [ok |-> FALSE, t |-> t, n |-> n]

RECURSIVE InsertMessages(_, _, _)
InsertMessages(t, messages, n) ==
  IF messages = <<>> THEN [ok |-> TRUE, t |-> t, n |-> n]
  ELSE LET r == InsertMessage(t, Head(messages))
       IN  IF r.ok THEN InsertMessages(r.t, Tail(messages), n + 1)
           ELSE [ok |-> FALSE, t |-> t, n |-> n]

RECURSIVE InsertChatHandleJoins(_, _, _)
InsertChatHandleJoins(t, joins, n) ==
  IF joins = <<>> THEN [ok |-> TRUE, t |-> t, n |-> n]
  ELSE LET r == InsertChatHandleJoin(t, Head(joins))
       IN  IF r.ok THEN InsertChatHandleJoins(r.t, Tail(joins), n + 1)
           ELSE [ok |-> FALSE, t |-> t, n |-> n]

RECURSIVE InsertChatMessageJoins(_, _, _)
InsertChatMessageJoins(t, joins, n) ==
  IF joins = <<>> THEN [ok |-> TRUE, t |-> t, n |-> n]
  ELSE LET r == InsertChatMessageJoin(t, Head(joins))
       IN  IF r.ok THEN InsertChatMessageJoins(r.t, Tail(joins), n + 1)
           ELSE [ok |-> FALSE, t |-> t, n |-> n]

\* const lastMessage = messages[messages.length - 1]
lastMessageOf(b) == b.messages[Len(b.messages)]

\* const newWatermarkDate = appleToDate(lastMessage.date)
newWatermarkDateOf(b) == appleToDate(lastMessageOf(b).date)

\* ------------------------------------------------------------------------
\* ingest.ts: ingestFromChatDb, one action per awaited step
\* ------------------------------------------------------------------------

Init ==
  /\ chatdb \in {[InitChatDb EXCEPT !.journal_mode = j] : j \in JournalModes}
  /\ cli = NoCli
  /\ conv = NoConv
  /\ peer = NoPeer
  /\ db = EmptyTables
  /\ tx = EmptyTables
  /\ inTx = FALSE
  /\ pc = "idle"
  /\ watermark = <<>>
  /\ batch = EmptyBatch
  /\ counts = ZeroCounts
  /\ result = NoResult
  /\ preDb = EmptyTables
  /\ prev = NoPrev

\* a throw at position p, outside or inside the inner try block
Thrown(p) == [result EXCEPT !.status = "failed", !.at = p]

\* the snapshot opened for writing: the pragma sets the journal mode
OpenReadWrite ==
  /\ pc = "idle"
  /\ preDb' = db
  /\ watermark' = <<>>
  /\ batch' = EmptyBatch
  /\ counts' = ZeroCounts
  /\ \/ /\ chatdb' = [chatdb EXCEPT !.journal_mode = "wal"]
        /\ pc' = "connect"
        /\ result' = [NoResult EXCEPT !.status = "running"]
     \/ /\ pc' = "failed"
        /\ result' = [NoResult EXCEPT !.status = "failed", !.at = "open"]
        /\ UNCHANGED chatdb
  /\ cli' = IF cli.phase = "start" THEN [cli EXCEPT !.phase = "ingest"] ELSE cli
  /\ UNCHANGED <<db, tx, inTx, prev, conv, peer>>

\* new Database(chatDbPath, {readonly: true, fileMustExist: true});
\* sqlite.pragma('journal_mode = WAL'); new Pool.  On the read-only
\* connection the pragma changes nothing: it returns when the file is in
\* WAL mode already and throws SQLITE_READONLY when it is not.
Open ==
  /\ pc = "idle"
  /\ preDb' = db
  /\ watermark' = <<>>
  /\ batch' = EmptyBatch
  /\ counts' = ZeroCounts
  /\ \/ /\ chatdb.journal_mode = "wal"
        /\ pc' = "connect"
        /\ result' = [NoResult EXCEPT !.status = "running"]
     \/ \* chat.db missing or unreadable, or the pragma rejected
        /\ pc' = "failed"
        /\ result' = [NoResult EXCEPT !.status = "failed", !.at = "open"]
  /\ cli' = IF cli.phase = "start" THEN [cli EXCEPT !.phase = "ingest"] ELSE cli
  /\ UNCHANGED <<chatdb, db, tx, inTx, prev, conv, peer>>

\* the pool hands out a connection on which BEGIN has been sent, and the
\* failure comes after it
ConnectBeginsFirst ==
  /\ pc = "connect"
  /\ \/ pc' = "getWatermark" /\ UNCHANGED <<result, inTx, tx>>
     \/ /\ pc' = "failed"
        /\ result' = Thrown("connect")
        /\ inTx' = TRUE
        /\ tx' = db
  /\ UNCHANGED <<chatdb, db, watermark, batch, counts, preDb, prev>>
  /\ UNCHANGED <<cli, conv, peer>>

\* client = await pool.connect()
Connect ==
  /\ pc = "connect"
  /\ \/ pc' = "getWatermark" /\ UNCHANGED result
     \/ pc' = "failed" /\ result' = Thrown("connect")
  /\ UNCHANGED <<chatdb, db, tx, inTx, watermark, batch, counts, preDb, prev>>
  /\ UNCHANGED <<cli, conv, peer>>

\* const watermark = await getWatermark(client)
GetWatermark ==
  /\ pc = "getWatermark"
  /\ \/ /\ watermark' = getWatermark(Cur)
        /\ pc' = "read"
        /\ UNCHANGED result
     \/ /\ pc' = "failed"
        /\ result' = Thrown("getWatermark")
        /\ UNCHANGED watermark
  /\ UNCHANGED <<chatdb, db, tx, inTx, batch, counts, preDb, prev>>
  /\ UNCHANGED <<cli, conv, peer>>

\* the fast path returns null for highWatermark whatever the watermark is
ReadSourceNullWatermark ==
  /\ pc = "read"
  /\ \/ /\ pc' = "failed"
        /\ result' = Thrown("read")
        /\ UNCHANGED batch
     \/ LET b == ReadChatDb(chatdb, appleWatermarkOf(watermark))
        IN  /\ batch' = b
            /\ IF Len(b.messages) = 0
               THEN /\ pc' = "complete"
                    /\ result' = [NoResult EXCEPT !.status = "complete",
                                                  !.at = "read"]
               ELSE /\ pc' = "begin"
                    /\ UNCHANGED result
  /\ UNCHANGED <<chatdb, db, tx, inTx, watermark, counts, preDb, prev>>
  /\ UNCHANGED <<cli, conv, peer>>

\* the chat.db queries, and the return of the fast path; a query that
\* throws (an I/O error of the share) leaves the outer try
ReadSource ==
  /\ pc = "read"
  /\ \/ /\ pc' = "failed"
        /\ result' = Thrown("read")
        /\ UNCHANGED batch
     \/ LET b == ReadChatDb(chatdb, appleWatermarkOf(watermark))
        IN  /\ batch' = b
            /\ IF Len(b.messages) = 0
               THEN /\ pc' = "complete"
                    /\ result' =
                         [ status           |-> "complete",
                           at               |-> "read",
                           messagesIngested |-> 0,
                           handlesUpserted  |-> 0,
                           chatsUpserted    |-> 0,
                           highWatermark    |->
                             IF watermark = <<>> THEN <<>>
                             ELSE <<watermark[1].lastMessageDate>> ]
               ELSE /\ pc' = "begin"
                    /\ UNCHANGED result
  /\ UNCHANGED <<chatdb, db, tx, inTx, watermark, counts, preDb, prev>>
  /\ UNCHANGED <<cli, conv, peer>>

\* BEGIN is not issued: every statement runs in autocommit
BeginOmitted ==
  /\ pc = "begin"
  /\ pc' = "handles"
  /\ UNCHANGED <<chatdb, db, tx, inTx, watermark, batch, counts, result,
                 preDb, prev>>
  /\ UNCHANGED <<cli, conv, peer>>

\* the source is queried again, from date 0, once BEGIN is issued
BeginRereads ==
  /\ pc = "begin"
  /\ \/ /\ inTx' = TRUE
        /\ tx' = db
        /\ pc' = "handles"
        /\ batch' = ReadChatDb(chatdb, Num(<<0>>))
        /\ UNCHANGED result
     \/ /\ pc' = "failed"
        /\ result' = Thrown("begin")
        /\ UNCHANGED <<inTx, tx, batch>>
  /\ UNCHANGED <<chatdb, db, watermark, counts, preDb, prev>>
  /\ UNCHANGED <<cli, conv, peer>>

\* await client.query('BEGIN'), before the inner try
Begin ==
  /\ pc = "begin"
  /\ \/ /\ inTx' = TRUE
        /\ tx' = db
        /\ pc' = "handles"
        /\ UNCHANGED result
     \/ /\ pc' = "failed"
        /\ result' = Thrown("begin")
        /\ UNCHANGED <<inTx, tx>>
  /\ UNCHANGED <<chatdb, db, watermark, batch, counts, preDb, prev>>
  /\ UNCHANGED <<cli, conv, peer>>

\* a loop of the write phase at position p: every statement returns (next
\* position q), PostgreSQL rejects one (the rows before it are written),
\* or the connection fails
WriteStep(p, q, r, field) ==
  /\ pc = p
  /\ \/ /\ Write(r.t)
        /\ counts' = IF field = "" THEN counts
                     ELSE [counts EXCEPT ![field] = r.n]
        /\ IF r.ok THEN pc' = q /\ UNCHANGED result
           ELSE pc' = "rollback" /\ result' = Thrown(p)
     \/ /\ pc' = "rollback"
        /\ result' = Thrown(p)
        /\ UNCHANGED <<db, tx, counts>>
  /\ UNCHANGED <<chatdb, inTx, watermark, batch, preDb, prev>>
  /\ UNCHANGED <<cli, conv, peer>>

UpsertHandlesStep ==
  WriteStep("handles", "chats",
            UpsertHandles(Cur, batch.handles, 0), "handlesUpserted")

\* the watermark written together with the threads
UpsertChatsThenWatermark ==
  WriteStep("chats", "messages",
            [ok |-> UpsertChats(Cur, batch.chats, 0).ok,
             t  |-> updateWatermark(UpsertChats(Cur, batch.chats, 0).t,
                                    newWatermarkDateOf(batch),
                                    lastMessageOf(batch).ROWID),
             n  |-> UpsertChats(Cur, batch.chats, 0).n], "chatsUpserted")

UpsertChatsStep ==
  WriteStep("chats", "messages",
            UpsertChats(Cur, batch.chats, 0), "chatsUpserted")

InsertMessagesStep ==
  WriteStep("messages", "chatHandleJoin",
            InsertMessages(Cur, batch.messages, 0), "messagesIngested")

InsertChatHandleJoinsStep ==
  WriteStep("chatHandleJoin", "chatMessageJoin",
            InsertChatHandleJoins(Cur, batch.chatHandleJoins, 0), "")

InsertChatMessageJoinsStep ==
  WriteStep("chatMessageJoin", "updateWatermark",
            InsertChatMessageJoins(Cur, batch.chatMessageJoins, 0), "")

\* await updateWatermark(client, newWatermarkDate, lastMessage.ROWID)
UpdateWatermarkStep ==
  WriteStep("updateWatermark", "commit",
            [ok |-> TRUE,
             t  |-> updateWatermark(Cur, newWatermarkDateOf(batch),
                                    lastMessageOf(batch).ROWID),
             n  |-> 0], "")

\* await client.query('COMMIT'), and the return of the summary
Commit ==
  /\ pc = "commit"
  /\ \/ /\ db' = IF inTx THEN tx ELSE db
        /\ tx' = EmptyTables
        /\ inTx' = FALSE
        /\ pc' = "complete"
        /\ result' =
             [ status           |-> "complete",
               at               |-> "commit",
               messagesIngested |-> counts.messagesIngested,
               handlesUpserted  |-> counts.handlesUpserted,
               chatsUpserted    |-> counts.chatsUpserted,
               highWatermark    |-> <<newWatermarkDateOf(batch)>> ]
     \/ /\ pc' = "rollback"
        /\ result' = Thrown("commit")
        /\ UNCHANGED <<db, tx, inTx>>
  /\ UNCHANGED <<chatdb, watermark, batch, counts, preDb, prev>>
  /\ UNCHANGED <<cli, conv, peer>>

\* the catch block issues COMMIT where ROLLBACK is meant
RollbackCommits ==
  /\ pc = "rollback"
  /\ db' = IF inTx THEN tx ELSE db
  /\ tx' = EmptyTables
  /\ inTx' = FALSE
  /\ pc' = "failed"
  /\ UNCHANGED <<chatdb, watermark, batch, counts, result, preDb, prev>>
  /\ UNCHANGED <<cli, conv, peer>>

\* catch (err) { await client.query('ROLLBACK'); throw err }
Rollback ==
  /\ pc = "rollback"
  /\ tx' = EmptyTables
  /\ inTx' = FALSE
  /\ pc' = "failed"
  /\ UNCHANGED <<chatdb, db, watermark, batch, counts, result, preDb, prev>>
  /\ UNCHANGED <<cli, conv, peer>>

\* what the next run remembers of this one
Remember(status, at) ==
  [ status       |-> status,
    afterUpserts |-> at \in {"messages", "chatHandleJoin", "chatMessageJoin",
                             "updateWatermark", "commit"},
    chatdb       |-> chatdb.message,
    watermark    |-> watermark,
    batch        |-> batch,
    result       |-> IF status = "complete" THEN result ELSE NoResult ]

\* main().catch logs the error and lets the process end as after a return
SettledSwallows(status) ==
  IF cli.phase # "ingest" THEN cli ELSE [cli EXCEPT !.phase = "returned"]

\* src/ingest.ts: main() after the await of ingestFromChatDb.  A summary
\* is logged and main returns; a rejection reaches main().catch, which
\* calls process.exit(1).
Settled(status) ==
  IF cli.phase # "ingest" THEN cli
  ELSE IF status = "complete" THEN [cli EXCEPT !.phase = "returned"]
  ELSE [cli EXCEPT !.phase = "exited", !.exit = <<1>>, !.at = "catch"]

\* finally { sqlite.close(); client?.release(); await pool.end() }, and
\* the promise of ingestFromChatDb settles
Finally ==
  /\ pc \in {"complete", "failed"}
  /\ pc' = "idle"
  /\ tx' = EmptyTables
  /\ inTx' = FALSE
  /\ prev' = Remember(result.status, result.at)
  /\ watermark' = <<>>
  /\ batch' = EmptyBatch
  /\ counts' = ZeroCounts
  /\ result' = NoResult
  /\ preDb' = db
  /\ cli' = Settled(result.status)
  /\ UNCHANGED <<chatdb, db, conv, peer>>

\* the process is killed during a run (the forced exit of the CLI, a node
\* failure); PostgreSQL aborts the open transaction of the lost connection
Kill ==
  /\ pc \notin {"idle", "complete", "failed"}
  /\ pc' = "idle"
  /\ tx' = EmptyTables
  /\ inTx' = FALSE
  /\ result' = NoResult
  /\ prev' = [Remember("interrupted", pc) EXCEPT !.watermark = <<>>,
                                                !.batch = EmptyBatch]
  /\ watermark' = <<>>
  /\ batch' = EmptyBatch
  /\ counts' = ZeroCounts
  /\ preDb' = db
  /\ UNCHANGED <<chatdb, db>>
  /\ UNCHANGED <<cli, conv, peer>>

Next ==
  \/ AppendSource
  \/ Open
  \/ Connect
  \/ GetWatermark
  \/ ReadSource
  \/ Begin
  \/ UpsertHandlesStep
  \/ UpsertChatsStep
  \/ InsertMessagesStep
  \/ InsertChatHandleJoinsStep
  \/ InsertChatMessageJoinsStep
  \/ UpdateWatermarkStep
  \/ Commit
  \/ Rollback
  \/ Finally
  \/ Kill

Spec == Init /\ [][Next]_vars

\* the source also changes rows that exist
NextEdit ==
  \/ Next
  \/ EditMessage
  \/ EditHandle
  \/ EditChat

SpecEdit == Init /\ [][NextEdit]_vars

\* ------------------------------------------------------------------------
\* src/ingest.ts: the process of the CLI entry point
\* ------------------------------------------------------------------------

\* the 30 s of the forced-exit timer, in ticks of the clock
GraceTicks == 2

\* the variables of ingestFromChatDb and of the two stores
runVars == <<chatdb, db, tx, inTx, pc, watermark, batch, counts, result,
             preDb, prev>>

Alive == cli.phase \in {"main", "start", "ingest", "returned"}

\* process.exit(code)
Exited(code, at) ==
  [cli EXCEPT !.phase = "exited", !.exit = <<code>>, !.at = at]

\* the CronJob starts a process: the module is evaluated, the handlers of
\* SIGTERM and SIGINT are registered, main() is called
Launch ==
  /\ pc = "idle"
  /\ cli.phase \in {"none", "exited"}
  /\ cli' = [NoCli EXCEPT !.phase = "main"]
  /\ UNCHANGED <<runVars, conv, peer>>

\* main() up to the call of ingestFromChatDb: requireEnv, existsSync, the
\* shutdown flag.  All of it runs in the turn of the event loop that
\* evaluates the module.
Main ==
  /\ cli.phase = "main"
  /\ \E configured \in BOOLEAN :
       cli' = IF ~configured THEN Exited(1, "config")
              ELSE IF cli.shutdownRequested THEN Exited(0, "shutdown")
              ELSE [cli EXCEPT !.phase = "start"]
  /\ UNCHANGED <<runVars, conv, peer>>

\* the event loop can run a callback: the process waits for a promise of
\* the run, or main has returned.  Between two awaits (the chat.db queries
\* after getWatermark, a throw before the first await) it cannot.
LoopTurn ==
  \/ /\ cli.phase = "ingest"
     /\ pc \notin {"idle", "read"}
     /\ ~(pc = "failed" /\ result.at = "open")
  \/ cli.phase = "returned"

\* the handler that ignores the timer: the flag only
SignalFlagOnly ==
  /\ LoopTurn
  /\ cli' = [cli EXCEPT !.shutdownRequested = TRUE]
  /\ UNCHANGED <<runVars, conv, peer>>

\* handleShutdown: the flag is set and a timer of 30 s is started (the
\* timer of the first signal is the first to fire)
Signal ==
  /\ LoopTurn
  /\ cli' = [cli EXCEPT !.shutdownRequested = TRUE,
                        !.timer = IF @ = -1 THEN 0 ELSE @]
  /\ UNCHANGED <<runVars, conv, peer>>

\* time passes on a started timer.  An expired timer fires at the next turn
\* of the event loop: time passes beyond its expiry only while the
\* synchronous chat.db queries hold the thread.
Tick ==
  /\ Alive
  /\ cli.timer >= 0
  /\ \/ cli.timer < GraceTicks
     \/ cli.phase = "ingest" /\ pc = "read" /\ cli.timer = GraceTicks
  /\ cli' = [cli EXCEPT !.timer = @ + 1]
  /\ UNCHANGED <<runVars, conv, peer>>

\* the callback of the timer: process.exit(1).  PostgreSQL aborts the
\* transaction of the connection that is lost.
ForcedExit ==
  /\ LoopTurn
  /\ cli.timer >= GraceTicks
  /\ cli' = Exited(1, "forced")
  /\ IF pc = "idle" THEN UNCHANGED runVars
     ELSE /\ pc' = "idle"
          /\ tx' = EmptyTables
          /\ inTx' = FALSE
          /\ result' = NoResult
          /\ prev' = [Remember("interrupted", pc) EXCEPT !.watermark = <<>>,
                                                        !.batch = EmptyBatch]
          /\ watermark' = <<>>
          /\ batch' = EmptyBatch
          /\ counts' = ZeroCounts
          /\ preDb' = db
          /\ UNCHANGED <<chatdb, db>>
  /\ UNCHANGED <<conv, peer>>

\* main has returned and nothing keeps the event loop alive: node exits
\* with status 0.  A started timer keeps it alive.
ProcessEnd ==
  /\ cli.phase = "returned"
  /\ cli.timer = -1
  /\ cli' = Exited(0, "end")
  /\ UNCHANGED <<runVars, conv, peer>>

\* the continuation of the run is called by the event loop, unless an
\* expired timer is served first
Resumes ==
  /\ cli.phase = "ingest"
  /\ cli.timer < GraceTicks \/ pc = "read"

NextCli ==
  \/ AppendSource
  \/ Launch
  \/ Main
  \/ cli.phase = "start" /\ Open
  \/ Resumes /\ Connect
  \/ Resumes /\ GetWatermark
  \/ Resumes /\ ReadSource
  \/ Resumes /\ Begin
  \/ Resumes /\ UpsertHandlesStep
  \/ Resumes /\ UpsertChatsStep
  \/ Resumes /\ InsertMessagesStep
  \/ Resumes /\ InsertChatHandleJoinsStep
  \/ Resumes /\ InsertChatMessageJoinsStep
  \/ Resumes /\ UpdateWatermarkStep
  \/ Resumes /\ Commit
  \/ Resumes /\ Rollback
  \/ Resumes /\ Finally
  \/ Signal
  \/ Tick
  \/ ForcedExit
  \/ ProcessEnd

SpecCli == Init /\ [][NextCli]_vars

\* ------------------------------------------------------------------------
\* dateConvert applied to a raw timestamp: one action per function
\* ------------------------------------------------------------------------

\* the magnitudes of the raw timestamps converted: 0, units, 650000000,
\* 10^12 and 10^12 + 1, 18-digit nanosecond values with and without a
\* part below the millisecond
RawMagnitudes ==
  {Num(<<a, b, 0, d, e, f>>) :
     a \in {0, 600}, b \in {0, 1}, d \in {0, 650}, e \in {0, 500}, f \in {0, 1}}

RawInputs == RawMagnitudes \cup {Neg(x) : x \in RawMagnitudes}

\* the distances from 2001-01-01T00:00:00Z, in milliseconds, of the
\* instants converted: 0, 1 ms, 5 s, 999.999 s, 1000 s, 1000.001 s and
\* about 19 years
InstantOffsets ==
  {Num(<<a, b, c, d>>) :
     a \in {0, 600}, b \in {0, 1}, c \in {0, 5, 999}, d \in {0, 1, 999}}

\* the time values of the Dates converted, after and before 2001-01-01
Instants ==
  {Add(Mul1000(APPLE_EPOCH_OFFSET), x) : x \in InstantOffsets}
    \cup {Sub(Mul1000(APPLE_EPOCH_OFFSET), x) : x \in InstantOffsets}

InitConv ==
  /\ chatdb = InitChatDb
  /\ db = EmptyTables
  /\ tx = EmptyTables
  /\ inTx = FALSE
  /\ pc = "idle"
  /\ watermark = <<>>
  /\ batch = EmptyBatch
  /\ counts = ZeroCounts
  /\ result = NoResult
  /\ preDb = EmptyTables
  /\ prev = NoPrev
  /\ cli = NoCli
  /\ peer = NoPeer
  /\ conv \in {[NoConv EXCEPT !.step = "raw", !.raw = x] : x \in RawInputs}
             \cup {[NoConv EXCEPT !.step = "instant", !.instant = <<d>>] :
                     d \in Instants}

AppleToUnixStep ==
  /\ conv.step = "raw"
  /\ conv' = [conv EXCEPT !.step = "unix", !.unix = <<appleToUnix(conv.raw)>>]
  /\ UNCHANGED <<runVars, cli, peer>>

UnixToAppleStep ==
  /\ conv.step = "unix"
  /\ conv' = [conv EXCEPT !.step = "reApple",
                          !.reApple = <<unixToApple(conv.unix[1])>>]
  /\ UNCHANGED <<runVars, cli, peer>>

AppleToDateStep ==
  /\ conv.step = "reApple"
  /\ conv' = [conv EXCEPT !.step = "date", !.date = <<appleToDate(conv.raw)>>]
  /\ UNCHANGED <<runVars, cli, peer>>

DateToAppleStep ==
  /\ conv.step = "date"
  /\ conv' = [conv EXCEPT !.step = "reDate",
                          !.reDate = <<dateToApple(conv.date[1])>>]
  /\ UNCHANGED <<runVars, cli, peer>>

\* appleToUnix applied to the re-encoded raw timestamp
ReAppleToUnixStep ==
  /\ conv.step = "reDate"
  /\ conv' = [conv EXCEPT !.step = "reUnix",
                          !.reUnix = <<appleToUnix(conv.reApple[1])>>]
  /\ UNCHANGED <<runVars, cli, peer>>

\* dateToApple applied to a Date
InstantToAppleStep ==
  /\ conv.step = "instant"
  /\ conv' = [conv EXCEPT !.step = "apple",
                          !.apple = <<dateToApple(conv.instant[1])>>]
  /\ UNCHANGED <<runVars, cli, peer>>

\* appleToDate applied to the result of dateToApple
AppleToInstantStep ==
  /\ conv.step = "apple"
  /\ conv' = [conv EXCEPT !.step = "reInstant",
                          !.reInstant = <<appleToDate(conv.apple[1])>>]
  /\ UNCHANGED <<runVars, cli, peer>>

NextConv ==
  \/ AppleToUnixStep
  \/ UnixToAppleStep
  \/ AppleToDateStep
  \/ DateToAppleStep
  \/ ReAppleToUnixStep
  \/ InstantToAppleStep
  \/ AppleToInstantStep

SpecConv == InitConv /\ [][NextConv]_vars

\* ------------------------------------------------------------------------
\* A source with a group thread: a second contact, and a second thread of
\* which both contacts are members
\* ------------------------------------------------------------------------

RefsChatDb ==
  [ journal_mode      |-> "wal",
    message           |-> {},
    handle            |-> {[ROWID |-> 1, id |-> "+15550001",
                            service |-> "iMessage"],
                           [ROWID |-> 2, id |-> "+15550002",
                            service |-> "iMessage"]},
    chat              |-> {[ROWID |-> 1, guid |-> "chat1",
                            display_name |-> ""],
                           [ROWID |-> 2, guid |-> "chat2",
                            display_name |-> "Family"]},
    chat_handle_join  |-> {[chat_id |-> 1, handle_id |-> 1],
                           [chat_id |-> 2, handle_id |-> 1],
                           [chat_id |-> 2, handle_id |-> 2]},
    chat_message_join |-> {} ]

\* (handle_id, chat) of a message appended to it: contact 1 in its own
\* thread, contact 1 in the group thread (contact 2 stays silent), and a
\* message without sender row (handle_id 0) in thread 1
RefsMsgKinds == {<<1, 1>>, <<1, 2>>, <<0, 1>>}

InitRefs ==
  /\ chatdb = RefsChatDb
  /\ cli = NoCli
  /\ conv = NoConv
  /\ peer = NoPeer
  /\ db = EmptyTables
  /\ tx = EmptyTables
  /\ inTx = FALSE
  /\ pc = "idle"
  /\ watermark = <<>>
  /\ batch = EmptyBatch
  /\ counts = ZeroCounts
  /\ result = NoResult
  /\ preDb = EmptyTables
  /\ prev = NoPrev

\* Messages.app appends one message row and its chat_message_join row
AppendSourceRefs ==
  /\ pc = "idle"
  /\ Cardinality(chatdb.message) < MaxMsgs
  /\ \E rowid \in 1..MaxMsgs, date \in RawDates, kind \in RefsMsgKinds :
       /\ \A m \in chatdb.message : m.ROWID # rowid
       /\ chatdb' =
            [chatdb EXCEPT
               !.message = @ \cup {[ROWID |-> rowid, guid |-> rowid,
                                    text |-> "a",
                                    handle_id |-> kind[1], date |-> date]},
               !.chat_message_join =
                  @ \cup {[chat_id |-> kind[2], message_id |-> rowid]}]
  /\ UNCHANGED <<db, tx, inTx, pc, watermark, batch, counts, result,
                 preDb, prev>>
  /\ UNCHANGED <<cli, conv, peer>>

NextRefs ==
  \/ AppendSourceRefs
  \/ Open
  \/ Connect
  \/ GetWatermark
  \/ ReadSource
  \/ Begin
  \/ UpsertHandlesStep
  \/ UpsertChatsStep
  \/ InsertMessagesStep
  \/ InsertChatHandleJoinsStep
  \/ InsertChatMessageJoinsStep
  \/ UpdateWatermarkStep
  \/ Commit
  \/ Rollback
  \/ Finally
  \/ Kill

SpecRefs == InitRefs /\ [][NextRefs]_vars

\* ------------------------------------------------------------------------
\* Two processes run ingestFromChatDb against the same archive.  The second
\* one is followed from its reads to the end of its transaction; the
\* transactions of the two upsert the same rows and PostgreSQL makes the
\* later one wait for the end of the earlier one, so the transaction of the
\* second process runs while the first process has none open.
\* ------------------------------------------------------------------------

\* BEGIN, the five loops, updateWatermark and COMMIT applied to the
\* committed tables t; ROLLBACK (t unchanged) when a statement is rejected
WriteBatch(t, b) ==
  LET r1 == UpsertHandles(t, b.handles, 0)
      r2 == UpsertChats(r1.t, b.chats, 0)
      r3 == InsertMessages(r2.t, b.messages, 0)
      r4 == InsertChatHandleJoins(r3.t, b.chatHandleJoins, 0)
      r5 == InsertChatMessageJoins(r4.t, b.chatMessageJoins, 0)
  IN  IF r1.ok /\ r2.ok /\ r3.ok /\ r4.ok /\ r5.ok
      THEN [ok |-> TRUE,
            t  |-> updateWatermark(r5.t, newWatermarkDateOf(b),
                                   lastMessageOf(b).ROWID)]
      ELSE [ok |-> FALSE, t |-> t]

InitOverlap ==
  /\ chatdb = InitChatDb
  /\ cli = NoCli
  /\ conv = NoConv
  /\ peer = NoPeer
  /\ db = EmptyTables
  /\ tx = EmptyTables
  /\ inTx = FALSE
  /\ pc = "idle"
  /\ watermark = <<>>
  /\ batch = EmptyBatch
  /\ counts = ZeroCounts
  /\ result = NoResult
  /\ preDb = EmptyTables
  /\ prev = NoPrev

\* the second process: getWatermark and the chat.db queries, up to BEGIN
\* (a run that finds no new message ends there and changes nothing).  Of
\* two overlapping runs the one that reads first is taken as the second
\* process: it reads while the first process is between two runs.
PeerRead ==
  /\ peer.pc = "idle"
  /\ pc = "idle"
  /\ LET b == ReadChatDb(chatdb, appleWatermarkOf(getWatermark(db)))
     IN  /\ Len(b.messages) > 0
         /\ peer' = [pc |-> "write", batch |-> b]
  /\ UNCHANGED <<runVars, cli, conv>>

\* the second process: its transaction, from BEGIN to COMMIT or ROLLBACK
PeerWrite ==
  /\ peer.pc = "write"
  /\ ~inTx
  /\ \/ db' = WriteBatch(db, peer.batch).t
     \/ db' = db
  /\ peer' = NoPeer
  /\ UNCHANGED <<chatdb, tx, inTx, pc, watermark, batch, counts, result,
                 preDb, prev, cli, conv>>

NextOverlap ==
  \/ AppendSource
  \/ Open
  \/ Connect
  \/ GetWatermark
  \/ ReadSource
  \/ Begin
  \/ UpsertHandlesStep
  \/ UpsertChatsStep
  \/ InsertMessagesStep
  \/ InsertChatHandleJoinsStep
  \/ InsertChatMessageJoinsStep
  \/ UpdateWatermarkStep
  \/ Commit
  \/ Rollback
  \/ Finally
  \/ PeerRead
  \/ PeerWrite

SpecOverlap == InitOverlap /\ [][NextOverlap]_vars

\* the write phase of a run that meets no error: lines 214-301 in one step
ApplyBatch(t, b) ==
  LET t1 == UpsertHandles(t, b.handles, 0).t
      t2 == UpsertChats(t1, b.chats, 0).t
      t3 == InsertMessages(t2, b.messages, 0).t
      t4 == InsertChatHandleJoins(t3, b.chatHandleJoins, 0).t
      t5 == InsertChatMessageJoins(t4, b.chatMessageJoins, 0).t
  IN  updateWatermark(t5, newWatermarkDateOf(b), lastMessageOf(b).ROWID)

\* ------------------------------------------------------------------------
\* Properties
\* ------------------------------------------------------------------------

HasWatermark(t) == t.ingest_watermark # {}

WatermarkRow(t) == CHOOSE r \in t.ingest_watermark : TRUE

ArchivedRowids(t) == {t.messages[k].original_rowid : k \in 1..Len(t.messages)}

WriteSteps == {"handles", "chats", "messages", "chatHandleJoin",
               "chatMessageJoin", "updateWatermark", "commit"}

\* the run that is ending reads the snapshot the previous run read
SameSnapshot == prev.chatdb = chatdb.message

\* C1 Atomicity under failure: when a step of the write phase (the upserts,
\* the inserts, updateWatermark or COMMIT) has thrown and the run has
\* failed, no transaction is left open and every table of the archive,
\* the watermark row included, is what it was when the run started.
C1_Atomicity ==
  (pc = "failed" /\ result.at \in WriteSteps) => (db = preDb /\ ~inTx)

\* a run of a non-empty archive has written its batch and the watermark in
\* its transaction and fails at COMMIT
C1_Witness ==
  /\ pc = "failed"
  /\ result.at = "commit"
  /\ Len(db.messages) > 0
  /\ \E k \in 1..Len(batch.messages) :
       batch.messages[k].ROWID \notin ArchivedRowids(db)

\* C2 No duplicates: in every state of the archive, whatever runs came
\* before, no two rows of messages have the same original_rowid, and every
\* row is the source row of that ROWID (its guid, sender and converted date).
C2_NoDuplicates ==
  /\ \A i, j \in 1..Len(db.messages) :
       db.messages[i].original_rowid = db.messages[j].original_rowid => i = j
  /\ \A i \in 1..Len(db.messages) :
       \E m \in chatdb.message :
         /\ m.ROWID = db.messages[i].original_rowid
         /\ m.guid = db.messages[i].guid
         /\ m.handle_id = db.messages[i].handle_id
         /\ appleToDate(m.date) = db.messages[i].date

\* a run has committed a batch that holds a message archived before it
C2_Witness ==
  /\ pc = "complete"
  /\ result.at = "commit"
  /\ \E k \in 1..Len(batch.messages) :
       batch.messages[k].ROWID \in ArchivedRowids(preDb)

\* C3 The watermark never runs ahead of the archive: in every committed
\* state the watermark row is absent or equals the (converted date, ROWID)
\* of a row of messages; and the committed watermark changes only at the
\* COMMIT that ends a transaction whose last write was updateWatermark,
\* to the date and ROWID of a message of the batch that the transaction
\* added to the archive.
C3_WatermarkBacked ==
  HasWatermark(db) =>
    \E i \in 1..Len(db.messages) :
      /\ db.messages[i].original_rowid = WatermarkRow(db).last_rowid
      /\ db.messages[i].date = WatermarkRow(db).last_message_date

C3_WatermarkStep ==
  db'.ingest_watermark # db.ingest_watermark =>
    /\ pc = "commit" /\ pc' = "complete" /\ inTx
    /\ db' = tx
    /\ WatermarkRow(db').last_rowid = lastMessageOf(batch).ROWID
    /\ WatermarkRow(db').last_message_date = appleToDate(lastMessageOf(batch).date)
    /\ WatermarkRow(db').last_rowid \in ArchivedRowids(db') \ ArchivedRowids(db)

C3_WatermarkNeverAhead == [](C3_WatermarkBacked) /\ [][C3_WatermarkStep]_vars

\* a second run has moved an existing watermark
C3_Witness ==
  /\ pc = "complete"
  /\ HasWatermark(preDb)
  /\ db.ingest_watermark # preDb.ingest_watermark

\* C4 Idempotence: a run that completes on the snapshot that the previous,
\* successful, run read leaves handles, chats, messages, both join tables
\* and the watermark's date and ROWID as they were.
C4_Idempotence ==
  (pc = "complete" /\ prev.status = "complete" /\ SameSnapshot) => db = preDb

\* the second run fetched messages again and went through the write phase
C4_Witness ==
  /\ pc = "complete"
  /\ prev.status = "complete"
  /\ SameSnapshot
  /\ result.at = "commit"
  /\ Len(db.messages) > 0

\* C5 Scenario B as claimed: a run that completes on the snapshot the
\* previous, successful, run read returns messagesIngested = 0 and the
\* highWatermark the previous run returned.
C5_RerunIngestsNothing ==
  (pc = "complete" /\ prev.status = "complete" /\ SameSnapshot) =>
    /\ result.messagesIngested = 0
    /\ result.highWatermark = prev.result.highWatermark

\* C6 Watermark timestamp monotonicity: once a watermark row is committed
\* it stays, and its last_message_date never decreases.
C6_Step ==
  HasWatermark(db) =>
    /\ HasWatermark(db')
    /\ Leq(WatermarkRow(db).last_message_date,
           WatermarkRow(db').last_message_date)

C6_DateMonotonic == [][C6_Step]_vars

\* a run has advanced the date of an existing watermark, one of the two
\* messages being in the seconds encoding and the other in nanoseconds
C6_Witness ==
  /\ pc = "complete"
  /\ HasWatermark(preDb)
  /\ Less(WatermarkRow(preDb).last_message_date,
          WatermarkRow(db).last_message_date)
  /\ \E m \in chatdb.message : ~isNanoseconds(m.date)
  /\ \E m \in chatdb.message : isNanoseconds(m.date)

\* C7 Watermark source-id monotonicity as claimed: the last_rowid of the
\* committed watermark never decreases.
C7_Step ==
  HasWatermark(db) =>
    /\ HasWatermark(db')
    /\ WatermarkRow(db).last_rowid <= WatermarkRow(db').last_rowid

C7_RowidMonotonic == [][C7_Step]_vars

\* C8 At-least-once delivery as claimed: when a run completes, every
\* message row of the snapshot it read is in the archive.
C8_AllDelivered ==
  pc = "complete" =>
    \A m \in chatdb.message : m.ROWID \in ArchivedRowids(db)

\* C9 Retry through recomputation: when the previous run failed in the
\* write phase after the upserts of handles and chats, a run on the same
\* snapshot reads the watermark that run read and fetches the batch that
\* run fetched, and when it completes the archive is what the write phase
\* of the failed run would have left, each message of the batch being
\* archived once.
C9_Retry ==
  (prev.status = "failed" /\ prev.afterUpserts /\ SameSnapshot) =>
    /\ pc \in WriteSteps \cup {"begin", "rollback", "complete"} =>
         watermark = prev.watermark /\ batch = prev.batch
    /\ pc = "complete" =>
         /\ db = ApplyBatch(preDb, prev.batch)
         /\ \A k \in 1..Len(prev.batch.messages) :
              Cardinality({i \in 1..Len(db.messages) :
                 db.messages[i].original_rowid = prev.batch.messages[k].ROWID}) = 1

\* the retry of a run that failed at COMMIT has completed
C9_Witness ==
  /\ prev.status = "failed"
  /\ prev.afterUpserts
  /\ SameSnapshot
  /\ pc = "complete"
  /\ result.at = "commit"
  /\ db # preDb

\* C10 as claimed: after a run that committed, the watermark is the
\* (converted date, ROWID) of a message of the batch, and no message of the
\* batch has a later converted date.
C10_ChronologicallyLast ==
  (pc = "complete" /\ result.at = "commit") =>
    /\ \E k \in 1..Len(batch.messages) :
         /\ WatermarkRow(db).last_rowid = batch.messages[k].ROWID
         /\ WatermarkRow(db).last_message_date = appleToDate(batch.messages[k].date)
    /\ \A k \in 1..Len(batch.messages) :
         Leq(appleToDate(batch.messages[k].date),
             WatermarkRow(db).last_message_date)

\* the newest of the converted dates of a non-empty set of source messages
NewestDate(msgs) ==
  CHOOSE d \in {appleToDate(m.date) : m \in msgs} :
    \A m \in msgs : Leq(appleToDate(m.date), d)

\* the contacts and the threads that the messages of the source refer to
ContactsOf(cdb) == {m.handle_id : m \in cdb.message} \ {0}

ThreadsOf(cdb) ==
  {j.chat_id : j \in {x \in cdb.chat_message_join :
                        \E m \in cdb.message : m.ROWID = x.message_id}}

\* C11 Scenario A as claimed: a run that found no watermark row and
\* completes on a non-empty snapshot has archived every message of the
\* snapshot and returns messagesIngested = the number of source messages,
\* handlesUpserted = the number of distinct contacts they refer to,
\* chatsUpserted = the number of distinct threads they are in, and
\* highWatermark = the converted date of the newest message.
C11_FirstRun ==
  (pc = "complete" /\ watermark = <<>> /\ chatdb.message # {}) =>
    /\ \A m \in chatdb.message : m.ROWID \in ArchivedRowids(db)
    /\ result.messagesIngested = Cardinality(chatdb.message)
    /\ result.handlesUpserted = Cardinality(ContactsOf(chatdb))
    /\ result.chatsUpserted = Cardinality(ThreadsOf(chatdb))
    /\ result.highWatermark = <<NewestDate(chatdb.message)>>

\* C12 Scenario C as claimed: a run that committed fetched no contact that
\* was in the archive when it started, and its handlesUpserted is the
\* number of contact rows it added.
C12_OnlyNewContacts ==
  (pc = "complete" /\ result.at = "commit") =>
    /\ \A k \in 1..Len(batch.handles) :
         \A h \in preDb.handles : h.original_rowid # batch.handles[k].ROWID
    /\ result.handlesUpserted =
         Cardinality(db.handles) - Cardinality(preDb.handles)

\* no message of the source is later than the watermark that the run read
\* (with no watermark row: the source has no message)
NoNewerMessage ==
  IF watermark = <<>> THEN chatdb.message = {}
  ELSE \A m \in chatdb.message :
         ~Greater(Mul1000(appleToUnix(m.date)), watermark[1].lastMessageDate)

\* the run is past its read phase
PastRead ==
  \/ pc \in WriteSteps \cup {"begin", "rollback"}
  \/ pc \in {"complete", "failed"} /\ result.at \notin {"open", "connect", "getWatermark"}

C14_MessageStep ==
  \A k \in 1..Len(db.messages) :
    /\ k <= Len(db'.messages)
    /\ db'.messages[k] = db.messages[k]

C14_Refreshed ==
  (pc = "complete" /\ result.at = "commit") =>
    /\ \A k \in 1..Len(batch.handles) :
         {r \in db.handles : r.original_rowid = batch.handles[k].ROWID} =
           {[original_rowid |-> batch.handles[k].ROWID,
             identifier     |-> batch.handles[k].id,
             service        |-> batch.handles[k].service]}
    /\ \A k \in 1..Len(batch.chats) :
         {r \in db.chats : r.original_rowid = batch.chats[k].ROWID} =
           {[original_rowid |-> batch.chats[k].ROWID,
             guid           |-> batch.chats[k].guid,
             display_name   |-> batch.chats[k].display_name]}
    /\ \A r \in preDb.handles :
         (\A k \in 1..Len(batch.handles) :
            batch.handles[k].ROWID # r.original_rowid) => r \in db.handles
    /\ \A r \in preDb.chats :
         (\A k \in 1..Len(batch.chats) :
            batch.chats[k].ROWID # r.original_rowid) => r \in db.chats

C14_WriteOnce == [](C14_Refreshed) /\ [][C14_MessageStep]_vars

\* a run has committed a batch that holds an archived message whose text
\* was edited in the source, and a contact and a thread that were edited
C14_Witness ==
  /\ pc = "complete"
  /\ result.at = "commit"
  /\ \E k \in 1..Len(batch.messages) :
       \E i \in 1..Len(preDb.messages) :
         /\ preDb.messages[i].original_rowid = batch.messages[k].ROWID
         /\ preDb.messages[i].text # batch.messages[k].text
         /\ db.messages[i] = preDb.messages[i]
  /\ db.handles # preDb.handles
  /\ Cardinality(db.handles) = Cardinality(preDb.handles)
  /\ db.chats # preDb.chats
  /\ Cardinality(db.chats) = Cardinality(preDb.chats)

\* C15 Configuration errors abort before any write: when the snapshot
\* cannot be opened or no connection to PostgreSQL is obtained, the run
\* has failed with no transaction opened and every table of the archive,
\* the watermark row included, as it was; and when the CLI has exited on a
\* missing variable or a missing file, no run was started and the archive
\* is as it was.
C15_ConfigAbort ==
  /\ (pc = "failed" /\ result.at \in {"open", "connect"}) =>
       (db = preDb /\ ~inTx /\ tx = EmptyTables)
  /\ (cli.phase = "exited" /\ cli.at = "config") =>
       (pc = "idle" /\ db = preDb /\ ~inTx /\ tx = EmptyTables)

\* the run of a CLI process on an archive with a watermark has failed at
\* pool.connect()
C15_Witness ==
  /\ cli.phase = "ingest"
  /\ pc = "failed"
  /\ result.at = "connect"
  /\ HasWatermark(db)

\* the transaction of the run that has completed is committed
Committed ==
  /\ ~inTx
  /\ db.ingest_watermark =
       {[id |-> 1, last_message_date |-> newWatermarkDateOf(batch),
         last_rowid |-> lastMessageOf(batch).ROWID]}
  /\ \A k \in 1..Len(batch.messages) :
       batch.messages[k].ROWID \in ArchivedRowids(db)

\* C16 Errors are never swallowed: a run in which an error was thrown never
\* returns; it has failed with no transaction left open, ROLLBACK being
\* issued exactly when one was open; a run returns a summary only when its
\* transaction is committed or its batch is empty; and the process whose
\* run failed exits with status 1, status 0 being that of a process whose
\* run returned.
C16_State ==
  /\ result.status = "failed" => pc \in {"rollback", "failed"}
  /\ pc = "rollback" => (inTx /\ result.at \in WriteSteps)
  /\ pc = "failed" => ~inTx
  /\ pc = "complete" =>
       \/ result.at = "commit" /\ Committed
       \/ result.at = "read" /\ batch.messages = <<>>
  /\ (cli.phase = "returned" \/ cli.exit = <<0>>) => prev.status = "complete"
  /\ (cli.phase = "exited" /\ cli.at = "catch") =>
       (cli.exit = <<1>> /\ prev.status = "failed")

C16_Step ==
  (cli.phase = "ingest" /\ pc = "failed" /\ pc' = "idle") =>
    (cli'.phase = "exited" /\ cli'.exit = <<1>>)

C16_NotSwallowed == [](C16_State) /\ [][C16_Step]_vars

\* the process has exited through main().catch after a run that failed in
\* the write phase and was rolled back
C16_Witness ==
  /\ cli.phase = "exited"
  /\ cli.at = "catch"
  /\ cli.exit = <<1>>
  /\ prev.status = "failed"
  /\ prev.afterUpserts

C17_State ==
  /\ (Alive /\ cli.shutdownRequested) => cli.timer \in 0..(GraceTicks + 1)
  /\ ~cli.shutdownRequested => cli.timer = -1
  /\ (Alive /\ cli.timer > GraceTicks) =>
       (cli.phase = "ingest" /\ pc \in {"read", "begin", "complete", "failed"})

C17_StepOk ==
  /\ (~cli.shutdownRequested /\ cli'.shutdownRequested) =>
       (cli'.timer = 0 /\ UNCHANGED runVars)
  /\ (pc # "idle" /\ pc' = "idle" /\ prev'.status = "interrupted") =>
       /\ cli.timer >= GraceTicks
       /\ cli'.phase = "exited" /\ cli'.exit = <<1>>
       /\ db' = db /\ ~inTx'
  /\ (LoopTurn /\ cli.timer >= GraceTicks /\ <<pc, db, tx, cli>>' # <<pc, db, tx, cli>>) =>
       (cli'.phase = "exited" /\ cli'.at = "forced")

C18_Step == (pc # "idle" \/ pc' # "idle") => chatdb' = chatdb

C18_SourceReadOnly == [][C18_Step]_vars

\* a run on a snapshot that is not in WAL mode and holds a message has
\* executed the pragma and failed, the journal mode being what it was
C18_Witness ==
  /\ pc = "failed"
  /\ result.at = "open"
  /\ chatdb.journal_mode = "delete"
  /\ chatdb.message # {}

\* C19 Unit detection: appleToUnix(raw) is raw / 10^9 + 978307200 when
\* abs(raw) > 10^12 and raw + 978307200 otherwise; 10^12 is converted as
\* seconds, 10^12 + 1 and -(10^12 + 1) as nanoseconds.
C19_UnitDetection ==
  conv.unix # <<>> =>
    /\ conv.unix[1] =
         IF MagLess(Num(<<1, 0, 0, 0, 0>>), conv.raw)
         THEN Add(Div1000(Div1000(Div1000(conv.raw))), Num(<<978, 307, 200>>))
         ELSE Add(conv.raw, Num(<<978, 307, 200>>))
    /\ conv.raw = Num(<<1, 0, 0, 0, 0>>) =>
         conv.unix[1] = Num(<<1, 0, 978, 307, 200>>)
    /\ conv.raw = Num(<<1, 0, 0, 0, 1>>) =>
         conv.unix[1] = Norm(FALSE, <<978, 308, 200>>, <<0, 0, 1>>)
    /\ conv.raw = Neg(Num(<<1, 0, 0, 0, 1>>)) =>
         conv.unix[1] = Norm(FALSE, <<978, 306, 199>>, <<999, 999, 999>>)
    /\ conv.raw = Num(<<650, 0, 0>>) =>
         conv.unix[1] = Num(<<1, 628, 307, 200>>)

\* appleToUnix has converted -(10^12 + 1)
C19_Witness ==
  /\ conv.raw = Neg(Num(<<1, 0, 0, 0, 1>>))
  /\ conv.unix # <<>>

\* C20 Nanosecond round trip as claimed: for a raw timestamp x with
\* abs(x) > 10^12, unixToApple(appleToUnix(x)) = x and
\* dateToApple(appleToDate(x)) = x.
C20_NanoRoundTrip ==
  isNanoseconds(conv.raw) =>
    /\ conv.reApple # <<>> => conv.reApple[1] = conv.raw
    /\ conv.reDate # <<>> => conv.reDate[1] = conv.raw

\* C21: a raw timestamp s of the seconds domain (abs(s) <= 10^12), re-encoded
\* from its Unix time by unixToApple and converted again, gives the same
\* instant: appleToUnix(unixToApple(appleToUnix(s))) = appleToUnix(s).
C21_SecondsRoundTrip ==
  (~isNanoseconds(conv.raw) /\ conv.reUnix # <<>>) =>
    conv.reUnix[1] = conv.unix[1]

\* C22: a Date d of millisecond precision survives dateToApple followed by
\* appleToDate, also within 1000 seconds of 2001-01-01T00:00:00Z and before
\* it: appleToDate(dateToApple(d)) = d.
C22_InstantRoundTrip ==
  conv.reInstant # <<>> => conv.reInstant[1] = conv.instant[1]

\* the ingest_watermark table of t holds no row or the one row of id 1
Singleton(t) ==
  /\ Cardinality(t.ingest_watermark) <= 1
  /\ \A r \in t.ingest_watermark : r.id = 1

\* what getWatermark has returned is null for an empty table and the stored
\* (timestamp, source id) otherwise
C23_Read ==
  pc = "read" =>
    /\ (watermark = <<>>) <=> (db.ingest_watermark = {})
    /\ watermark # <<>> =>
          /\ watermark[1].lastMessageDate = WatermarkRow(db).last_message_date
          /\ watermark[1].lastRowid = WatermarkRow(db).last_rowid

\* after updateWatermark the table holds the one row of the call
C23_Written ==
  (pc = "commit" /\ inTx) =>
    tx.ingest_watermark =
      {[id |-> 1, last_message_date |-> newWatermarkDateOf(batch),
        last_rowid |-> lastMessageOf(batch).ROWID]}

\* an error of either query is the error of the run (a step to "idle" is
\* the death of the process)
C23_Propagated ==
  /\ (pc = "getWatermark" /\ pc' \notin {"read", "idle"}) =>
        (pc' = "failed" /\ result'.status = "failed"
           /\ result'.at = "getWatermark")
  /\ (pc = "updateWatermark" /\ pc' \notin {"commit", "idle"}) =>
        (pc' = "rollback" /\ result'.status = "failed"
           /\ result'.at = "updateWatermark")

C23_State ==
  /\ Singleton(db) /\ Singleton(tx)
  /\ C23_Read /\ C23_Written

\* C23 Watermark store singleton: getWatermark returns null exactly when the
\* table has no row and the stored timestamp and source id otherwise; after
\* every updateWatermark, the first and the later ones, the table holds
\* exactly one row, of id 1, carrying the values of that call; an error of
\* either query fails the run and is not turned into null or success.
C23_WatermarkSingleton == [](C23_State) /\ [][C23_Propagated]_vars

\* a run of an archive that has a watermark row has replaced it by a
\* different one
C23_Witness ==
  /\ pc = "commit"
  /\ inTx
  /\ preDb.ingest_watermark # {}
  /\ tx.ingest_watermark # preDb.ingest_watermark

\* every contact and every thread of the batch is in the transaction's view
UpsertsDone ==
  /\ \A k \in 1..Len(batch.handles) :
       \E r \in tx.handles : r.original_rowid = batch.handles[k].ROWID
  /\ \A k \in 1..Len(batch.chats) :
       \E r \in tx.chats : r.original_rowid = batch.chats[k].ROWID

\* where the write phase stands, and what the transaction has written by then
C24_State ==
  inTx =>
    /\ pc \in {"handles", "chats"} =>
         /\ tx.messages = db.messages
         /\ tx.chat_handle_join = db.chat_handle_join
         /\ tx.chat_message_join = db.chat_message_join
    /\ pc \in {"messages", "chatHandleJoin", "chatMessageJoin",
                "updateWatermark", "commit"} => UpsertsDone
    /\ pc \in {"handles", "chats", "messages", "chatHandleJoin"} =>
         tx.chat_message_join = db.chat_message_join
    /\ pc \in {"chatMessageJoin", "updateWatermark", "commit"} =>
         \A k \in 1..Len(batch.messages) :
           batch.messages[k].ROWID \in ArchivedRowids(tx)
    /\ pc \in WriteSteps \ {"commit"} =>
         tx.ingest_watermark = db.ingest_watermark

\* a write of messages or join rows finds the upserts done, a write of
\* thread-message rows finds the messages written, the watermark is written
\* by the step that leads to COMMIT, and after it the transaction only ends
C24_Step ==
  (inTx /\ inTx') =>
    /\ (tx'.messages # tx.messages
          \/ tx'.chat_handle_join # tx.chat_handle_join
          \/ tx'.chat_message_join # tx.chat_message_join) => UpsertsDone
    /\ tx'.chat_message_join # tx.chat_message_join =>
         \A k \in 1..Len(batch.messages) :
           batch.messages[k].ROWID \in ArchivedRowids(tx)
    /\ tx'.ingest_watermark # tx.ingest_watermark =>
         (pc = "updateWatermark" /\ pc' = "commit")
    /\ pc = "commit" => tx' = tx

\* C24 Write ordering inside the transaction: every contact and thread of
\* the batch is upserted before the first message or join row is written,
\* the messages are written before the thread-message join rows that refer
\* to them, and the watermark update is the last write: the next statement
\* is COMMIT (or the ROLLBACK of a failed COMMIT).
C24_WriteOrdering == [](C24_State) /\ [][C24_Step]_vars

\* a transaction that has written a contact, a thread, two messages, their
\* join rows and a new watermark stands before COMMIT
C24_Witness ==
  /\ pc = "commit"
  /\ inTx
  /\ Len(batch.handles) > 0
  /\ Len(batch.chats) > 0
  /\ Len(batch.messages) = 2
  /\ tx.chat_message_join # db.chat_message_join
  /\ tx.chat_handle_join # db.chat_handle_join
  /\ tx.ingest_watermark # db.ingest_watermark

\* once the read phase is over the batch is what the five queries returned
\* for the watermark read, it has a message, and only then a transaction
\* is open
C25_State ==
  /\ pc \in WriteSteps \cup {"begin", "rollback"} =>
       /\ batch = ReadChatDb(chatdb, appleWatermarkOf(watermark))
       /\ Len(batch.messages) > 0
  /\ inTx => pc \in WriteSteps \cup {"rollback"}

\* the batch is set by the read phase alone, before BEGIN (and dropped when
\* the run is over); the write phase is entered from the read phase through
\* BEGIN only
C25_Step ==
  /\ batch' # batch =>
       \/ pc = "read" /\ ~inTx /\ ~inTx' /\ pc' \in {"begin", "complete"}
       \/ pc' = "idle" /\ batch' = EmptyBatch
  /\ (pc # "begin" /\ pc' = "begin") => pc = "read"
  /\ (~inTx /\ inTx') => (pc = "begin" /\ pc' = "handles")
  /\ (pc \notin WriteSteps /\ pc' \in WriteSteps) =>
       (pc = "begin" /\ pc' = "handles" /\ Len(batch.messages) > 0)

\* C25 Single read pass: every query against the source has returned before
\* BEGIN is issued, the batch is not read again once the write phase has
\* started, and the write phase is entered only from the read phase and
\* only with a non-empty batch.
C25_SingleReadPass == [](C25_State) /\ [][C25_Step]_vars

\* a run that found a watermark is writing a batch that holds fewer messages
\* than the source
C25_Witness ==
  /\ pc = "messages"
  /\ inTx
  /\ watermark # <<>>
  /\ Len(batch.messages) < Cardinality(chatdb.message)

C29_ForcedOnlyOnOverrun ==
  [][ /\ (cli.phase = "returned" /\ cli'.phase = "exited") =>
           cli'.exit = <<0>>
      /\ (cli.phase # "exited" /\ cli'.phase = "exited"
            /\ cli'.at = "forced") =>
           (cli.phase = "ingest" /\ pc # "idle") ]_vars

\* the rows of the snapshot are consistent with each other: the handle_id
\* of a message is 0 or a row of handle, and the join rows refer to rows
\* of chat, handle and message
SourceConsistent(cdb) ==
  /\ \A m \in cdb.message :
       m.handle_id = 0 \/ \E h \in cdb.handle : h.ROWID = m.handle_id
  /\ \A j \in cdb.chat_handle_join :
       /\ \E c \in cdb.chat : c.ROWID = j.chat_id
       /\ \E h \in cdb.handle : h.ROWID = j.handle_id
  /\ \A j \in cdb.chat_message_join :
       /\ \E c \in cdb.chat : c.ROWID = j.chat_id
       /\ \E m \in cdb.message : m.ROWID = j.message_id

\* PostgreSQL accepts the messages of a batch of a consistent snapshot,
\* those of handle_id 0 included
C26_SenderlessAccepted ==
  (inTx /\ pc = "messages" /\ SourceConsistent(chatdb)) =>
    InsertMessages(tx, batch.messages, 0).ok

\* PostgreSQL accepts the thread-contact rows of a batch of a consistent
\* snapshot, those of contacts that sent no message of the batch included
C26_SilentMemberAccepted ==
  (inTx /\ pc = "chatHandleJoin" /\ SourceConsistent(chatdb)) =>
    InsertChatHandleJoins(tx, batch.chatHandleJoins, 0).ok

\* C26 Progress on a consistent source, as claimed: in a run on a snapshot
\* whose rows are consistent with each other PostgreSQL rejects no statement
\* of the write phase, so that a run that meets no I/O fault commits and
\* completes; in particular neither a message of handle_id 0 nor a thread
\* with a member that sent none of the new messages violates a foreign key.
C26_Progress ==
  /\ (inTx /\ pc = "handles" /\ SourceConsistent(chatdb)) =>
       UpsertHandles(tx, batch.handles, 0).ok
  /\ (inTx /\ pc = "chats" /\ SourceConsistent(chatdb)) =>
       UpsertChats(tx, batch.chats, 0).ok
  /\ C26_SenderlessAccepted
  /\ C26_SilentMemberAccepted
  /\ (inTx /\ pc = "chatMessageJoin" /\ SourceConsistent(chatdb)) =>
       InsertChatMessageJoins(tx, batch.chatMessageJoins, 0).ok

\* the references of the rows of t resolve to rows of t
RefsResolve(t) ==
  /\ \A k \in 1..Len(t.messages) :
       \E h \in t.handles : h.original_rowid = t.messages[k].handle_id
  /\ \A j \in t.chat_handle_join :
       /\ \E c \in t.chats : c.original_rowid = j.chat_id
       /\ \E h \in t.handles : h.original_rowid = j.handle_id
  /\ \A j \in t.chat_message_join :
       /\ \E c \in t.chats : c.original_rowid = j.chat_id
       /\ j.message_id \in ArchivedRowids(t)

\* the batch brings every row its messages and join rows refer to
BatchSelfContained(b) ==
  /\ \A k \in 1..Len(b.messages) :
       b.messages[k].handle_id = 0 \/
       \E i \in 1..Len(b.handles) : b.handles[i].ROWID = b.messages[k].handle_id
  /\ \A k \in 1..Len(b.chatHandleJoins) :
       /\ \E i \in 1..Len(b.handles) :
            b.handles[i].ROWID = b.chatHandleJoins[k].handle_id
       /\ \E i \in 1..Len(b.chats) :
            b.chats[i].ROWID = b.chatHandleJoins[k].chat_id
  /\ \A k \in 1..Len(b.chatMessageJoins) :
       /\ \E i \in 1..Len(b.chats) :
            b.chats[i].ROWID = b.chatMessageJoins[k].chat_id
       /\ \E i \in 1..Len(b.messages) :
            b.messages[i].ROWID = b.chatMessageJoins[k].message_id

\* every committed state of the archive is referentially correct
C27_ArchiveResolves == RefsResolve(db)

\* C27 Self-contained batch and referential correctness, as claimed: the
\* batch handed to the write phase holds every contact that one of its
\* messages (handle_id not 0) or thread-contact rows refers to and every
\* thread that one of its join rows refers to, and in every committed state
\* of the archive the references of messages and join rows resolve.
C27_SelfContained ==
  /\ pc \in WriteSteps \cup {"begin"} => BatchSelfContained(batch)
  /\ C27_ArchiveResolves

\* the archive holds at most one row per message ROWID
C30_NoDuplicate ==
  \A i, j \in 1..Len(db.messages) :
    db.messages[i].original_rowid = db.messages[j].original_rowid => i = j

\* a commit does not move the stored watermark backward (stated for the
\* sources whose dates are all in the nanosecond encoding, where the order
\* of the raw dates is the order of the instants)
C30_Step ==
  (/\ HasWatermark(db) /\ HasWatermark(db')
   /\ \A m \in chatdb.message : isNanoseconds(m.date)) =>
    ~Less(WatermarkRow(db').last_message_date,
          WatermarkRow(db).last_message_date)

\* C30 Overlapping runs, as claimed: when two runs against the same archive
\* overlap, each reading the watermark and its batch before the other
\* commits, the archive holds at most one row per message ROWID and the
\* commit of the later one does not move the stored watermark backward.
C30_OverlappingRuns == [](C30_NoDuplicate) /\ [][C30_Step]_vars

\* the watermark row that the run of batch b writes
WatermarkOf(b) ==
  [id |-> 1, last_message_date |-> newWatermarkDateOf(b),
   last_rowid |-> lastMessageOf(b).ROWID]

\* a commit leaves the archived messages in place, and the watermark it
\* stores is the last message of the batch of the run that commits
C30_CommitStep ==
  db' # db =>
    /\ \A k \in 1..Len(db.messages) :
         k <= Len(db'.messages) /\ db'.messages[k] = db.messages[k]
    /\ \/ /\ pc = "commit" /\ pc' = "complete"
          /\ db'.ingest_watermark = {WatermarkOf(batch)}
       \/ /\ peer.pc = "write" /\ peer'.pc = "idle"
          /\ db'.ingest_watermark = {WatermarkOf(peer.batch)}

\* C30 amended: when two runs against the same archive overlap, the archive
\* holds at most one row per message ROWID and no archived message is
\* lost; the stored watermark is the one of the run that commits last,
\* whatever the other run has stored, so the later commit can move the
\* watermark backward.
C30_LastCommitWins == [](C30_NoDuplicate) /\ [][C30_CommitStep]_vars

\* both processes have committed, every date of the source is in
\* nanoseconds, and the stored watermark is older than an archived message
C30_Witness ==
  /\ peer.pc = "idle"
  /\ ~inTx
  /\ HasWatermark(db)
  /\ \A m \in chatdb.message : isNanoseconds(m.date)
  /\ \E k \in 1..Len(db.messages) :
       Less(WatermarkRow(db).last_message_date, db.messages[k].date)

====
